---- MODULE Spec2Model ----
(***************************************************************************)
(* Attendify2: the attendance-rate calculator (app/utils.py) and the rate  *)
(* store it feeds (app/routers/attendance.py, app/database/cruds.py).      *)
(*                                                                         *)
(* Encodings.                                                              *)
(*   Optional values: Python None is <<>>, a value v is <<v>>.             *)
(*   Rates: a float with one decimal is held as its number of tenths       *)
(*   (66.7 is 667), scores as the integers of the score tables.            *)
(*   Status strings are romanised, TLA+ strings being ASCII:               *)
(*   shusseki (present, 100), kesseki (absent, 0), koushuu (lecture),      *)
(*   chikoku (late, 50), soutai (left early, 50), muketsu (absent without  *)
(*   notice, 0); "other" stands for any string outside the tables.         *)
(***************************************************************************)
EXTENDS Integers, Sequences, FiniteSets, Bags, TLC

VARIABLES
    \* ---- one run of Attendances.calc, statement by statement
    self,       \* the Attendances list calc is called on
    actual,     \* calc's parameter
    pc,         \* "idle" | "call" | "loop" | "done"
    i,          \* position of the for loop in self (1-based)
    total,      \* calc's local: the denominator
    score,      \* calc's local: the numerator
    result,     \* what calc returned
    history,    \* the calls finished before this one: <<[actual, result]>>
    \* ---- the request handlers and the stores
    attendances,    \* table attendances: set of rows
    schedules,      \* table schedules: set of dates
    rates,          \* table attendance_rates: bag of rows (the uuid id left out)
    tasks,          \* coroutines in flight: bag of jobs, a job being the list of
                    \* background tasks one request added (run one after the
                    \* other) or the rest of a recalc_attendance request
    nextId,         \* number of attendance rows inserted so far (ids are fresh)
    requests,       \* number of requests handled so far
    last,           \* the HTTP status of the last response
    members,        \* table members: the ids of the stored members
    sessions,       \* table sessions: set of rows
    cookie,         \* request.session["token"] of the client: None or <<token>>
    now,            \* utils.now(), in days
    weekly          \* table weekly_participations: set of rows

calcVars == <<self, actual, pc, i, total, score, result, history>>
registryVars == <<members, sessions, cookie, now, weekly>>
storeVars == <<attendances, schedules, rates, tasks, nextId, requests, last,
               members, sessions, cookie, now, weekly>>
vars == <<self, actual, pc, i, total, score, result, history,
          attendances, schedules, rates, tasks, nextId, requests, last,
          members, sessions, cookie, now, weekly>>

None == <<>>

\* ------------------------------------------------------------------ bounds
MaxLen == 2     \* free records at the end of a collection given to calc
MaxPad == 7     \* equal records in front of them
MaxRequests == 2    \* requests handled in one behaviour
MaxBulk == 2        \* entries of one bulk registration

\* ------------------------------------------------------------ score tables
KnownStatuses == {"shusseki", "kesseki", "koushuu", "chikoku", "soutai", "muketsu"}
Statuses == KnownStatuses \cup {"other"}

attendance_scoreLectureZero ==
    [s \in KnownStatuses |->
        CASE s = "shusseki" -> <<100>>
          [] s = "kesseki"  -> <<0>>
          [] s = "koushuu"  -> <<0>>
          [] s = "chikoku"  -> <<50>>
          [] s = "soutai"   -> <<50>>
          [] s = "muketsu"  -> <<0>>]

attendance_score ==
    [s \in KnownStatuses |->
        CASE s = "shusseki" -> <<100>>
          [] s = "kesseki"  -> <<0>>
          [] s = "koushuu"  -> None
          [] s = "chikoku"  -> <<50>>
          [] s = "soutai"   -> <<50>>
          [] s = "muketsu"  -> <<0>>]

actual_attendance_scoreLateFull ==
    [s \in KnownStatuses |->
        CASE s = "shusseki" -> <<100>>
          [] s = "kesseki"  -> <<0>>
          [] s = "koushuu"  -> <<0>>
          [] s = "chikoku"  -> <<100>>
          [] s = "soutai"   -> <<50>>
          [] s = "muketsu"  -> <<0>>]

actual_attendance_score ==
    [s \in KnownStatuses |->
        CASE s = "shusseki" -> <<100>>
          [] s = "kesseki"  -> <<0>>
          [] s = "koushuu"  -> <<0>>
          [] s = "chikoku"  -> <<50>>
          [] s = "soutai"   -> <<50>>
          [] s = "muketsu"  -> <<0>>]

\* scores = actual_attendance_score if actual else attendance_score
ScoresOf(act) == IF act THEN actual_attendance_score ELSE attendance_score

\* ------------------------------------------------------------------- calc
\* One pass of the body of `for attendance in self`, on the locals
\* acc = [total, score].
CalcStepUnknownCounted(acc, attendance, act) ==
    LET scores == ScoresOf(act) IN
    IF attendance.attendance \in DOMAIN scores
    THEN LET s == scores[attendance.attendance] IN
         IF s # None
         THEN [total |-> acc.total + 1, score |-> acc.score + s[1]]
         ELSE acc
    ELSE [acc EXCEPT !.total = @ + 1]

CalcStepScoreTwice(acc, attendance, act) ==
    LET scores == ScoresOf(act) IN
    IF attendance.attendance \in DOMAIN scores
    THEN LET s == scores[attendance.attendance] IN
         IF s # None
         THEN [total |-> acc.total + 1, score |-> acc.score + s[1] + s[1]]
         ELSE acc
    ELSE IF act THEN [acc EXCEPT !.total = @ + 1] ELSE acc

CalcStep(acc, attendance, act) ==
    LET scores == ScoresOf(act) IN
    IF attendance.attendance \in DOMAIN scores
    THEN LET s == scores[attendance.attendance] IN
         IF s # None
         THEN [total |-> acc.total + 1, score |-> acc.score + s[1]]
         ELSE acc
    ELSE IF act THEN [acc EXCEPT !.total = @ + 1] ELSE acc

\* Decimal(x).quantize(Decimal("0.1"), rounding="ROUND_HALF_UP") of the
\* quotient num/den (num, den >= 0, den > 0), in tenths: the digits up to the
\* first decimal, plus one when the rest is half a tenth or more.  The
\* quotient Decimal(str(score)) / Decimal(str(total)) carries 28 significant
\* digits, so for the totals reached here its position against the half is
\* that of the exact quotient.
QuantizeHalfUp(num, den) ==
    LET q == (10 * num) \div den
        r == (10 * num) % den
    IN IF 2 * r >= den THEN q + 1 ELSE q

\* The end of calc, after the loop.
CalcReturnTruncating(acc) ==
    IF acc.total = 0 THEN None ELSE <<(10 * acc.score) \div acc.total>>

CalcReturnZeroForNoData(acc) ==
    IF acc.total = 0 THEN <<0>> ELSE <<QuantizeHalfUp(acc.score, acc.total)>>

CalcReturnOffByOne(acc) ==
    IF acc.total = 0 THEN None ELSE <<QuantizeHalfUp(acc.score, acc.total + 1)>>

CalcReturn(acc) ==
    IF acc.total = 0 THEN None ELSE <<QuantizeHalfUp(acc.score, acc.total)>>

\* The for loop of calc from position k on.
RECURSIVE CalcLoop(_, _, _, _)
CalcLoop(recs, act, k, acc) ==
    IF k > Len(recs) THEN acc
    ELSE CalcLoop(recs, act, k + 1, CalcStep(acc, recs[k], act))

\* Attendances.calc as one call.
calc(recs, act) ==
    IF recs = <<>> THEN None
    ELSE CalcReturn(CalcLoop(recs, act, 1, [total |-> 0, score |-> 0]))

\* ------------------------------------------------- calc, statement by statement
\* The collections calc is tried on: k equal records (of a member) followed by
\* up to MaxLen free records (of no member, as under noload or after the
\* member's deletion).
Repeat(x, k) == [j \in 1..k |-> x]

SeqsUpTo(S, n) == UNION {[1..k -> S] : k \in 0..n}

InputCollections ==
    {Repeat([attendance |-> s, member |-> <<"m1">>], k) \o base :
        s \in Statuses, k \in 0..MaxPad,
        base \in SeqsUpTo([attendance : Statuses, member : {None}], MaxLen)}

CalcIdle ==
    /\ self = <<>> /\ actual = FALSE /\ pc = "idle" /\ i = 0
    /\ total = 0 /\ score = 0 /\ result = None /\ history = <<>>

\* calc is entered: `if not self: return None`, then the locals are set.
CalcEnter ==
    /\ pc = "call"
    /\ IF self = <<>>
       THEN /\ result' = None
            /\ pc' = "done"
            /\ UNCHANGED <<i, total, score>>
       ELSE /\ total' = 0
            /\ score' = 0
            /\ i' = 1
            /\ pc' = "loop"
            /\ UNCHANGED result
    /\ UNCHANGED <<self, actual, history>>
    /\ UNCHANGED storeVars

CalcIterateConsuming ==
    /\ pc = "loop"
    /\ i <= Len(self)
    /\ LET acc == CalcStep([total |-> total, score |-> score], self[i], actual) IN
         /\ total' = acc.total
         /\ score' = acc.score
    /\ self' = Tail(self)
    /\ UNCHANGED <<i, actual, pc, result, history>>
    /\ UNCHANGED storeVars

\* One iteration of `for attendance in self`.
CalcIterate ==
    /\ pc = "loop"
    /\ i <= Len(self)
    /\ LET acc == CalcStep([total |-> total, score |-> score], self[i], actual) IN
         /\ total' = acc.total
         /\ score' = acc.score
    /\ i' = i + 1
    /\ UNCHANGED <<self, actual, pc, result, history>>
    /\ UNCHANGED storeVars

\* The loop is over: `if total == 0: return None`, else the quantized quotient.
CalcFinish ==
    /\ pc = "loop"
    /\ i > Len(self)
    /\ result' = CalcReturn([total |-> total, score |-> score])
    /\ pc' = "done"
    /\ UNCHANGED <<self, actual, i, total, score, history>>
    /\ UNCHANGED storeVars

\* The caller calls calc again on the same list: once more with the same
\* argument, then with the other one (the handlers call calc(False) and
\* calc(True) on one list).
CalcAgain ==
    /\ pc = "done"
    /\ Len(history) < 2
    /\ history' = Append(history, [actual |-> actual, result |-> result])
    /\ actual' = IF Len(history) = 0 THEN actual ELSE ~actual
    /\ pc' = "call"
    /\ UNCHANGED <<self, i, total, score, result>>
    /\ UNCHANGED storeVars

NextCalc == CalcEnter \/ CalcIterate \/ CalcFinish \/ CalcAgain

\* ------------------------------------------------------------------ the data
Members == {"m1", "m2"}

\* members.part of the registered members
PartOf == [m \in Members |-> IF m = "m1" THEN "fl" ELSE "cl"]

\* class Part, in declaration order
PartSeq == <<"fl", "cl", "sax", "wr", "trp", "hrn", "trb", "bass", "perc", "unk">>

Date(y, m, d) == [year |-> y, month |-> m, day |-> d]

\* the dates a schedule is held for: two of April 2024 and one of May 2024
Dates == {Date(2024, 4, 6), Date(2024, 4, 13), Date(2024, 5, 4)}

\* the dates attendance is registered for: one of each month, so that a
\* month can have a schedule while the date of a record has none
AttendanceDates == {Date(2024, 4, 6), Date(2024, 5, 4)}

\* the statuses the single requests submit, and those of the bulk requests
PostStatuses == {"shusseki", "koushuu"}
BulkStatuses == {"shusseki"}

\* date.strftime("%Y-%m"): the year and the month, the day dropped
Strftime(date) == <<date.year, date.month>>

\* calendar.monthrange(year, month)[1]
MonthRange(y, m) ==
    IF m \in {4, 6, 9, 11} THEN 30
    ELSE IF m = 2
         THEN (IF (y % 4 = 0 /\ y % 100 # 0) \/ y % 400 = 0 THEN 29 ELSE 28)
         ELSE 31

DateLE(a, b) ==
    \/ a.year < b.year
    \/ a.year = b.year /\ a.month < b.month
    \/ a.year = b.year /\ a.month = b.month /\ a.day <= b.day

\* A set of rows as a list.  A SELECT without ORDER BY returns the rows in no
\* promised order; nothing below depends on it (calc sums), so the rows are
\* listed by id.
RECURSIVE RowsById(_)
RowsById(S) ==
    IF S = {} THEN <<>>
    ELSE LET r == CHOOSE x \in S : \A y \in S : x.id <= y.id
         IN <<r>> \o RowsById(S \ {r})

\* The Member a row's relationship loads: the member row of member_id.
MemberOf(row) ==
    IF row.member_id = None THEN None
    ELSE <<[id |-> row.member_id[1], part |-> PartOf[row.member_id[1]]]>>

\* cruds.get_attendances(db, month=..., member=...): the rows of the month (of
\* all months when month is None), their member loaded only under member=True
\* (noload leaves the attribute None).
get_attendances(table, month, member) ==
    LET start == Date(month[1][1], month[1][2], 1)
        end == Date(month[1][1], month[1][2], MonthRange(month[1][1], month[1][2]))
        hit == {r \in table :
                    month = None \/ (DateLE(start, r.date) /\ DateLE(r.date, end))}
        rows == RowsById(hit)
    IN [k \in 1..Len(rows) |->
            [id |-> rows[k].id, date |-> rows[k].date,
             member_id |-> rows[k].member_id, attendance |-> rows[k].attendance,
             member |-> IF member THEN MemberOf(rows[k]) ELSE None]]

\* Attendances.filter_by_part / filter_by_member
filter_by_part(recs, part) ==
    SelectSeq(recs, LAMBDA a : a.member # None /\ a.member[1].part = part)

filter_by_member(recs, member) ==
    SelectSeq(recs, LAMBDA a : a.member # None /\ a.member[1].id = member.id)

\* models.AttendanceRate(target_type=, target_id=, month=, rate=, actual=)
AttendanceRate(type, id, month, rate, act) ==
    [target_type |-> type, target_id |-> id, month |-> month,
     rate |-> rate, actual |-> act]

\* ------------------------------------------------------ the rate store
\* UniqueConstraint('target_id', 'month', 'actual') as the arbiter of
\* ON CONFLICT: the stored rows a new row x conflicts with.  SQL compares
\* NULL as distinct from NULL in a unique index, so a row whose target_id is
\* NULL (target_type "all") conflicts with none.
Conflicts(store, x) ==
    {r \in BagToSet(store) :
        /\ x.target_id # None
        /\ r.target_id = x.target_id
        /\ r.month = x.month
        /\ r.actual = x.actual}

\* Two rows of one statement with the same non-NULL key: the statement fails
\* ("ON CONFLICT DO UPDATE command cannot affect row a second time").
SameKeyTwice(rows) ==
    \E j, k \in 1..Len(rows) :
        /\ j < k
        /\ rows[j].target_id # None
        /\ rows[j].target_id = rows[k].target_id
        /\ rows[j].month = rows[k].month
        /\ rows[j].actual = rows[k].actual

\* cruds.add_attendance_rates: the store after the one statement INSERT ...
\* VALUES (all rows) ON CONFLICT (target_id, month, actual) DO UPDATE SET
\* rate = excluded.rate.  A stored row that a proposed row conflicts with takes
\* its rate (the constraint lets the store hold one such row for a key); a
\* proposed row that conflicts with no stored row is inserted.
add_attendance_rates(store, attendance_rates) ==
    IF attendance_rates = <<>> THEN store
    ELSE IF SameKeyTwice(attendance_rates) THEN store
    ELSE LET rows == attendance_rates
             Proposed(r) ==
                 {k \in 1..Len(rows) : Conflicts(SetToBag({r}), rows[k]) # {}}
             hit == {r \in BagToSet(store) : Proposed(r) # {}}
             kept == [r \in BagToSet(store) \ hit |-> CopiesIn(r, store)]
             updated ==
                 SetToBag({[r EXCEPT !.rate = rows[CHOOSE k \in Proposed(r) : TRUE].rate] :
                              r \in hit})
             new == {k \in 1..Len(rows) : Conflicts(store, rows[k]) = {}}
             inserted == [x \in {rows[k] : k \in new} |->
                             Cardinality({k \in new : rows[k] = x})]
         IN kept (+) updated (+) inserted

\* ------------------------------------------------ the rows a recomputation writes
\* recalculate_attendance_rates(updated_month, attendance), up to the call of
\* add_attendance_rates: the six rows built from the month's attendances.
\* `member` is attendance.member, loaded by the request.
RecalculateRows(table, updated_month, member) ==
    LET all_attendances == get_attendances(table, <<updated_month>>, FALSE)
        part_attendances == filter_by_part(all_attendances, member.part)
        member_attendances == filter_by_member(all_attendances, member)
    IN << AttendanceRate("all", None, updated_month,
                         calc(all_attendances, FALSE), FALSE),
          AttendanceRate("all", None, updated_month,
                         calc(all_attendances, TRUE), TRUE),
          AttendanceRate("part", <<member.part>>, updated_month,
                         calc(part_attendances, FALSE), FALSE),
          AttendanceRate("part", <<member.part>>, updated_month,
                         calc(part_attendances, TRUE), TRUE),
          AttendanceRate("member", <<member.id>>, updated_month,
                         calc(member_attendances, FALSE), FALSE),
          AttendanceRate("member", <<member.id>>, updated_month,
                         calc(member_attendances, TRUE), TRUE) >>

MonthAttendancesAnyDate(table, sched, month) ==
    SelectSeq(get_attendances(table, None, TRUE),
              LAMBDA a : Strftime(a.date) = month /\ a.member # None)

\* The attendances a month's rates are computed from in
\* recalculate_attendance_rates_bulk and recalc_attendance: those of the
\* month, of a member, on a date that has a schedule.
MonthAttendances(table, sched, month) ==
    SelectSeq(get_attendances(table, None, TRUE),
              LAMBDA a : /\ Strftime(a.date) = month
                         /\ a.member # None
                         /\ a.date \in sched)

\* for part in Part: the two rows of each part, from position k of PartSeq on
RECURSIVE PartRows(_, _, _)
PartRows(all_attendances, month, k) ==
    IF k > Len(PartSeq) THEN <<>>
    ELSE LET part_attendances == filter_by_part(all_attendances, PartSeq[k])
         IN << AttendanceRate("part", <<PartSeq[k]>>, month,
                              calc(part_attendances, FALSE), FALSE),
               AttendanceRate("part", <<PartSeq[k]>>, month,
                              calc(part_attendances, TRUE), TRUE) >>
            \o PartRows(all_attendances, month, k + 1)

\* for member in set(a.member for a in all_attendances): the two rows of each
RECURSIVE MemberRows(_, _, _)
MemberRows(all_attendances, month, ms) ==
    IF ms = {} THEN <<>>
    ELSE LET member == CHOOSE x \in ms : TRUE
             member_attendances == filter_by_member(all_attendances, member)
         IN << AttendanceRate("member", <<member.id>>, month,
                              calc(member_attendances, FALSE), FALSE),
               AttendanceRate("member", <<member.id>>, month,
                              calc(member_attendances, TRUE), TRUE) >>
            \o MemberRows(all_attendances, month, ms \ {member})

\* The rows of one month: all members, every part, every member with a record.
MonthRows(table, sched, month) ==
    LET all_attendances == MonthAttendances(table, sched, month)
        ms == {all_attendances[k].member[1] : k \in 1..Len(all_attendances)}
    IN << AttendanceRate("all", None, month, calc(all_attendances, FALSE), FALSE),
          AttendanceRate("all", None, month, calc(all_attendances, TRUE), TRUE) >>
       \o PartRows(all_attendances, month, 1)
       \o MemberRows(all_attendances, month, ms)

MonthLT(a, b) == a[1] < b[1] \/ (a[1] = b[1] /\ a[2] < b[2])

\* sorted(set of "%Y-%m" strings)
RECURSIVE SortedMonths(_)
SortedMonths(S) ==
    IF S = {} THEN <<>>
    ELSE LET m == CHOOSE x \in S : \A y \in S : x = y \/ MonthLT(x, y)
         IN <<m>> \o SortedMonths(S \ {m})

\* recalc_attendance: the rows of every month that has a schedule
RECURSIVE AllMonthsRows(_, _, _, _)
AllMonthsRows(table, sched, months, k) ==
    IF k > Len(months) THEN <<>>
    ELSE MonthRows(table, sched, months[k]) \o AllMonthsRows(table, sched, months, k + 1)

ScheduleMonths(sched) == {Strftime(d) : d \in sched}

\* ------------------------------------------------------- the attendance store
\* ForeignKey("members.id"): a member_id must be NULL or that of a stored member
References(table, member_id) == member_id = None \/ member_id[1] \in table

\* the rows the unique constraint (date, member_id) sets against a new one
Existing(table, date, member_id) ==
    {r \in table : r.date = date /\ r.member_id = member_id}

AttendanceRow(id, a) ==
    [id |-> id, date |-> a.date, member_id |-> a.member_id, attendance |-> a.attendance]

UpsertAttendanceInsertOnly(table, id, a) == table \cup {AttendanceRow(id, a)}

\* cruds.add_attendance / one row of cruds.add_attendances under overwrite:
\* INSERT ... ON CONFLICT (date, member_id) DO UPDATE SET attendance
UpsertAttendance(table, id, a) ==
    IF Existing(table, a.date, a.member_id) = {}
    THEN table \cup {AttendanceRow(id, a)}
    ELSE {IF r \in Existing(table, a.date, a.member_id)
          THEN [r EXCEPT !.attendance = a.attendance] ELSE r : r \in table}

\* the request bodies: schemas.AttendancesParams
Params == [member_id : {<<m>> : m \in Members}, attendance : PostStatuses,
           date : AttendanceDates]
BulkParams == [member_id : {<<m>> : m \in Members}, attendance : BulkStatuses,
               date : AttendanceDates]

\* two entries of one bulk request for the same (date, member)
Repeats(list) ==
    \E j, k \in 1..Len(list) :
        j < k /\ list[j].date = list[k].date /\ list[j].member_id = list[k].member_id

\* INSERT of the list, one row after the other, ids in list order
RECURSIVE InsertAll(_, _, _, _)
InsertAll(table, list, k, id) ==
    IF k > Len(list) THEN table
    ELSE InsertAll(table \cup {AttendanceRow(id + 1, list[k])}, list, k + 1, id + 1)

RECURSIVE UpsertAll(_, _, _, _)
UpsertAll(table, list, k, id) ==
    IF k > Len(list) THEN table
    ELSE IF Existing(table, list[k].date, list[k].member_id) = {}
         THEN UpsertAll(UpsertAttendance(table, id + 1, list[k]), list, k + 1, id + 1)
         ELSE UpsertAll(UpsertAttendance(table, id, list[k]), list, k + 1, id)

NewRows(table, list) ==
    Cardinality({k \in 1..Len(list) :
                    Existing(table, list[k].date, list[k].member_id) = {}})

\* ------------------------------------------------------------------- the jobs
Task(kind, month, member) ==
    [kind |-> kind, month |-> month, member |-> member, phase |-> "start", rows |-> <<>>]

BulkTasks(months) ==
    [k \in 1..Len(months) |->
        Task("recalculate_attendance_rates_bulk", <<months[k]>>, None)]

AddJob(bag, job) == IF job = <<>> THEN bag ELSE bag (+) SetToBag({job})

ReplaceJob(bag, job, next) == AddJob(bag (-) SetToBag({job}), next)

\* the response of a request: its HTTP status code
Response(op, code) == code

\* ------------------------------------------------------------- the sessions
\* datetime.timedelta(days=30): the days a session stays valid
SessionDays == 30

\* the values utils.now() takes: the day the first session was created, the
\* last day it is valid and the first day it is not
Clock == {0, SessionDays, SessionDays + 1}

\* models.Session(token=, member_id=), created_at by default utils.now()
Session(token, member_id, created_at) ==
    [token |-> token, member_id |-> member_id, created_at |-> created_at]

\* cruds.get_session_by_valid_token: the stored session of the token, None
\* when there is none or when it is older than 30 days
get_session_by_valid_token(table, token, t) ==
    LET hit == {x \in table : x.token = token} IN
    IF hit = {} THEN None
    ELSE LET session == CHOOSE x \in hit : TRUE
         IN IF session.created_at + SessionDays < t THEN None ELSE <<session>>

\* dependencies.get_valid_session: the session, None standing for the raise of
\* INVALID_AUTHENTICATION_CREDENTIALS
get_valid_session ==
    IF cookie # None
    THEN get_session_by_valid_token(sessions, cookie[1], now)
    ELSE None

\* secrets.token_urlsafe(256): a token no session and no cookie holds
generate_token ==
    LET used == {x.token : x \in sessions} \cup {0}
                \cup (IF cookie = None THEN {} ELSE {cookie[1]})
    IN 1 + (CHOOSE t \in used : \A u \in used : u <= t)

\* ------------------------------------------------------------------- requests
post_attendanceAlwaysUpsert(a, overwrite) ==
    /\ requests < MaxRequests
    /\ requests' = requests + 1
    /\ IF ~References(members, a.member_id)
       THEN /\ last' = Response("post_attendance", 400)
            /\ UNCHANGED <<attendances, nextId, tasks>>
       ELSE /\ attendances' = UpsertAttendance(attendances, nextId + 1, a)
            /\ nextId' = IF Existing(attendances, a.date, a.member_id) = {}
                         THEN nextId + 1 ELSE nextId
            /\ tasks' = AddJob(tasks,
                   << Task("recalculate_attendance_rates", <<Strftime(a.date)>>,
                           MemberOf(AttendanceRow(0, a))) >>)
            /\ last' = Response("post_attendance", 200)
    /\ UNCHANGED <<schedules, rates>>
    /\ UNCHANGED calcVars
    /\ UNCHANGED registryVars

\* POST /attendance
post_attendance(a, overwrite) ==
    /\ requests < MaxRequests
    /\ requests' = requests + 1
    /\ IF \/ ~overwrite /\ Existing(attendances, a.date, a.member_id) # {}
          \/ ~References(members, a.member_id)
       THEN \* IntegrityError (unique constraint, or the foreign key of
            \* member_id) -> ALREADY_EXISTS_ATTENDANCE, HTTP 400
            /\ last' = Response("post_attendance", 400)
            /\ UNCHANGED <<attendances, nextId, tasks>>
       ELSE /\ attendances' = UpsertAttendance(attendances, nextId + 1, a)
            /\ nextId' = IF Existing(attendances, a.date, a.member_id) = {}
                         THEN nextId + 1 ELSE nextId
            /\ tasks' = AddJob(tasks,
                   << Task("recalculate_attendance_rates", <<Strftime(a.date)>>,
                           MemberOf(AttendanceRow(0, a))) >>)
            /\ last' = Response("post_attendance", 200)
    /\ UNCHANGED <<schedules, rates>>
    /\ UNCHANGED calcVars
    /\ UNCHANGED registryVars

\* POST /attendances
post_attendances(list, overwrite) ==
    /\ requests < MaxRequests
    /\ requests' = requests + 1
    /\ IF list = <<>>
       THEN /\ last' = Response("post_attendances", 200)
            /\ UNCHANGED <<attendances, nextId, tasks>>
       ELSE IF ~overwrite
       THEN IF \/ Repeats(list) \/ NewRows(attendances, list) < Len(list)
               \/ \E k \in 1..Len(list) : ~References(members, list[k].member_id)
            THEN \* IntegrityError: nothing of the list is kept
                 /\ last' = Response("post_attendances", 400)
                 /\ UNCHANGED <<attendances, nextId, tasks>>
            ELSE /\ attendances' = InsertAll(attendances, list, 1, nextId)
                 /\ nextId' = nextId + Len(list)
                 /\ tasks' = AddJob(tasks, BulkTasks(SortedMonths(
                                {Strftime(list[k].date) : k \in 1..Len(list)})))
                 /\ last' = Response("post_attendances", 200)
       ELSE IF Repeats(list)
            THEN \* "ON CONFLICT DO UPDATE command cannot affect row a second
                 \* time": no IntegrityError, the request fails with HTTP 500
                 /\ last' = Response("post_attendances", 500)
                 /\ UNCHANGED <<attendances, nextId, tasks>>
            ELSE IF \E k \in 1..Len(list) : ~References(members, list[k].member_id)
            THEN \* IntegrityError of the foreign key, HTTP 400
                 /\ last' = Response("post_attendances", 400)
                 /\ UNCHANGED <<attendances, nextId, tasks>>
            ELSE /\ attendances' = UpsertAll(attendances, list, 1, nextId)
                 /\ nextId' = nextId + NewRows(attendances, list)
                 /\ tasks' = AddJob(tasks, BulkTasks(SortedMonths(
                                {Strftime(list[k].date) : k \in 1..Len(list)})))
                 /\ last' = Response("post_attendances", 200)
    /\ UNCHANGED <<schedules, rates>>
    /\ UNCHANGED calcVars
    /\ UNCHANGED registryVars

delete_attendanceNotFound(attendance_id) ==
    /\ requests < MaxRequests
    /\ requests' = requests + 1
    /\ attendances' = {r \in attendances : r.id # attendance_id}
    /\ last' = IF \E r \in attendances : r.id = attendance_id
               THEN Response("delete_attendance", 200)
               ELSE Response("delete_attendance", 404)
    /\ UNCHANGED <<schedules, rates, tasks, nextId>>
    /\ UNCHANGED calcVars
    /\ UNCHANGED registryVars

\* DELETE /attendance/{attendance_id}
delete_attendance(attendance_id) ==
    /\ requests < MaxRequests
    /\ requests' = requests + 1
    /\ attendances' = {r \in attendances : r.id # attendance_id}
    /\ last' = Response("delete_attendance", 200)
    /\ UNCHANGED <<schedules, rates, tasks, nextId>>
    /\ UNCHANGED calcVars
    /\ UNCHANGED registryVars

\* PATCH /attendance/{attendance_id}
patch_attendance(attendance_id, attendance) ==
    /\ requests < MaxRequests
    /\ requests' = requests + 1
    /\ attendances' = {IF r.id = attendance_id
                       THEN [r EXCEPT !.attendance = attendance] ELSE r :
                       r \in attendances}
    /\ last' = Response("patch_attendance", 200)
    /\ UNCHANGED <<schedules, rates, tasks, nextId>>
    /\ UNCHANGED calcVars
    /\ UNCHANGED registryVars

bulk_delete_attendancesEveryMonth(attendance_ids) ==
    /\ requests < MaxRequests
    /\ requests' = requests + 1
    /\ LET rows == {r \in attendances : r.id \in attendance_ids} IN
         /\ attendances' = attendances \ rows
         /\ tasks' = AddJob(tasks, BulkTasks(SortedMonths(
                                {Strftime(r.date) : r \in attendances})))
    /\ last' = Response("bulk_delete_attendances", 200)
    /\ UNCHANGED <<schedules, rates, nextId>>
    /\ UNCHANGED calcVars
    /\ UNCHANGED registryVars

\* DELETE /attendances
bulk_delete_attendances(attendance_ids) ==
    /\ requests < MaxRequests
    /\ requests' = requests + 1
    /\ LET rows == {r \in attendances : r.id \in attendance_ids} IN
         /\ attendances' = attendances \ rows
         /\ tasks' = AddJob(tasks, BulkTasks(SortedMonths(
                                {Strftime(r.date) : r \in rows})))
    /\ last' = Response("bulk_delete_attendances", 200)
    /\ UNCHANGED <<schedules, rates, nextId>>
    /\ UNCHANGED calcVars
    /\ UNCHANGED registryVars

\* DELETE /schedule/{date}
delete_schedule(date) ==
    /\ requests < MaxRequests
    /\ requests' = requests + 1
    /\ schedules' = schedules \ {date}
    /\ last' = Response("delete_schedule", 200)
    /\ UNCHANGED <<attendances, rates, tasks, nextId>>
    /\ UNCHANGED calcVars
    /\ UNCHANGED registryVars

\* POST /attendance/rate/recalc: the request is taken up; its reads, its
\* clear and its insert follow as the steps of its job.
recalc_attendance ==
    /\ requests < MaxRequests
    /\ requests' = requests + 1
    /\ tasks' = AddJob(tasks, << Task("recalc_attendance", None, None) >>)
    /\ last' = Response("recalc_attendance", 200)
    /\ UNCHANGED <<attendances, schedules, rates, nextId>>
    /\ UNCHANGED calcVars
    /\ UNCHANGED registryVars

\* DELETE /member/{member_id}: the member row goes; its sessions and its
\* weekly participations go with it (ondelete CASCADE), its attendances keep
\* their row with member_id NULL (ondelete SET NULL).
delete_member(member_id) ==
    /\ requests < MaxRequests
    /\ requests' = requests + 1
    /\ members' = members \ {member_id}
    /\ sessions' = {x \in sessions : x.member_id # member_id}
    /\ weekly' = {w \in weekly : w.member_id # member_id}
    /\ attendances' = {IF r.member_id = <<member_id>>
                       THEN [r EXCEPT !.member_id = None] ELSE r : r \in attendances}
    /\ last' = Response("delete_member", 200)
    /\ UNCHANGED <<schedules, rates, tasks, nextId, cookie, now>>
    /\ UNCHANGED calcVars

upsert_weekly_participationInsertOnly(table, member_id, params) ==
    table \cup {[member_id |-> member_id, weekday |-> params.weekday,
                 default_attendance |-> params.default_attendance,
                 is_active |-> params.is_active]}

\* cruds.upsert_weekly_participation: INSERT ... ON CONFLICT (member_id,
\* weekday) DO UPDATE SET is_active, default_attendance
upsert_weekly_participation(table, member_id, params) ==
    LET hit == {w \in table : w.member_id = member_id /\ w.weekday = params.weekday} IN
    IF hit = {}
    THEN table \cup {[member_id |-> member_id, weekday |-> params.weekday,
                      default_attendance |-> params.default_attendance,
                      is_active |-> params.is_active]}
    ELSE {IF w \in hit
          THEN [w EXCEPT !.is_active = params.is_active,
                         !.default_attendance = params.default_attendance]
          ELSE w : w \in table}

\* POST /member/{member_id}/weekly_participation
post_weekly_participation(member_id, wp) ==
    /\ requests < MaxRequests
    /\ requests' = requests + 1
    /\ IF ~References(members, <<member_id>>)
       THEN \* IntegrityError of the foreign key, not caught: HTTP 500
            /\ last' = Response("post_weekly_participation", 500)
            /\ UNCHANGED weekly
       ELSE /\ weekly' = upsert_weekly_participation(weekly, member_id, wp)
            /\ last' = Response("post_weekly_participation", 200)
    /\ UNCHANGED <<attendances, schedules, rates, tasks, nextId>>
    /\ UNCHANGED <<members, sessions, cookie, now>>
    /\ UNCHANGED calcVars

\* the columns of models.Schedule: the keywords its constructor takes
ScheduleColumns == {"date", "type", "generations", "groups", "exclude_groups"}

\* cruds.add_schedule: INSERT ... ON CONFLICT (date) DO UPDATE; of a schedule
\* row the model keeps the date
add_schedule(table, schedule) == table \cup {schedule.date}

\* POST /schedule: s.model_dump() holds the fields of schemas.Schedule (date,
\* type, target); models.Schedule(**...) raises TypeError on a keyword that is
\* no column, before add_schedule is called: HTTP 500.
post_schedule(s) ==
    /\ requests < MaxRequests
    /\ requests' = requests + 1
    /\ IF ~(DOMAIN s \subseteq ScheduleColumns)
       THEN /\ last' = Response("post_schedule", 500)
            /\ UNCHANGED schedules
       ELSE /\ schedules' = add_schedule(schedules, s)
            /\ last' = Response("post_schedule", 200)
    /\ UNCHANGED <<attendances, rates, tasks, nextId>>
    /\ UNCHANGED registryVars
    /\ UNCHANGED calcVars

\* GET /logout
logout ==
    /\ requests < MaxRequests
    /\ requests' = requests + 1
    /\ sessions' = IF cookie # None
                   THEN {x \in sessions : x.token # cookie[1]} ELSE sessions
    /\ cookie' = None
    /\ last' = Response("logout", 200)
    /\ UNCHANGED <<attendances, schedules, rates, tasks, nextId, members, now, weekly>>
    /\ UNCHANGED calcVars

\* POST /login: `granted` says that the state matched and Google returned the
\* e-mail address, `member_id` is the member of that address.
login(granted, member_id) ==
    /\ requests < MaxRequests
    /\ requests' = requests + 1
    /\ IF ~granted
       THEN /\ last' = Response("login", 400)
            /\ UNCHANGED <<sessions, cookie>>
       ELSE IF member_id \notin members
       THEN /\ last' = Response("login", 403)
            /\ UNCHANGED <<sessions, cookie>>
       ELSE /\ sessions' = sessions \cup {Session(generate_token, member_id, now)}
            /\ cookie' = <<generate_token>>
            /\ last' = Response("login", 200)
    /\ UNCHANGED <<attendances, schedules, rates, tasks, nextId, members, now, weekly>>
    /\ UNCHANGED calcVars

\* time passes
Tick ==
    /\ \E t \in Clock : t > now /\ now' = t
    /\ UNCHANGED <<attendances, schedules, rates, tasks, nextId, requests, last>>
    /\ UNCHANGED <<members, sessions, cookie, weekly>>
    /\ UNCHANGED calcVars

\* the raise of get_valid_session: HTTP 401, the handler is not called
Unauthorized ==
    /\ requests < MaxRequests
    /\ requests' = requests + 1
    /\ last' = Response("get_valid_session", 401)
    /\ UNCHANGED <<attendances, schedules, rates, tasks, nextId>>
    /\ UNCHANGED registryVars
    /\ UNCHANGED calcVars

RouteOpen(handler) == handler

\* dependencies=[Depends(get_valid_session)]: the handler of a route runs
\* when get_valid_session returns a session
Route(handler) == IF get_valid_session # None THEN handler ELSE Unauthorized

\* ---------------------------------------------------- the steps of the jobs
\* recalculate_attendance_rates up to its insert: the month's rows are read
\* and the six rates computed.
RecalculateRead(job) ==
    /\ job[1].kind = "recalculate_attendance_rates"
    /\ job[1].phase = "start"
    /\ tasks' = ReplaceJob(tasks, job,
          <<[job[1] EXCEPT !.phase = "write",
                           !.rows = RecalculateRows(attendances, job[1].month[1],
                                                    job[1].member[1])]>>
          \o Tail(job))
    /\ UNCHANGED <<attendances, schedules, rates, nextId, requests, last>>
    /\ UNCHANGED calcVars
    /\ UNCHANGED registryVars

\* recalculate_attendance_rates_bulk up to its insert; a month without a
\* schedule ends the task.
BulkRead(job) ==
    /\ job[1].kind = "recalculate_attendance_rates_bulk"
    /\ job[1].phase = "start"
    /\ IF job[1].month[1] \notin ScheduleMonths(schedules)
       THEN tasks' = ReplaceJob(tasks, job, Tail(job))
       ELSE tasks' = ReplaceJob(tasks, job,
              <<[job[1] EXCEPT !.phase = "write",
                               !.rows = MonthRows(attendances, schedules,
                                                  job[1].month[1])]>>
              \o Tail(job))
    /\ UNCHANGED <<attendances, schedules, rates, nextId, requests, last>>
    /\ UNCHANGED calcVars
    /\ UNCHANGED registryVars

\* recalc_attendance up to clear_attendance_rates
RecalcRead(job) ==
    /\ job[1].kind = "recalc_attendance"
    /\ job[1].phase = "start"
    /\ tasks' = ReplaceJob(tasks, job,
          <<[job[1] EXCEPT !.phase = "clear",
                           !.rows = AllMonthsRows(attendances, schedules,
                                        SortedMonths(ScheduleMonths(schedules)), 1)]>>
          \o Tail(job))
    /\ UNCHANGED <<attendances, schedules, rates, nextId, requests, last>>
    /\ UNCHANGED calcVars
    /\ UNCHANGED registryVars

ClearRatesKeeping(job) ==
    /\ job[1].phase = "clear"
    /\ rates' = rates
    /\ tasks' = ReplaceJob(tasks, job, <<[job[1] EXCEPT !.phase = "write"]>> \o Tail(job))
    /\ UNCHANGED <<attendances, schedules, nextId, requests, last>>
    /\ UNCHANGED calcVars
    /\ UNCHANGED registryVars

\* cruds.clear_attendance_rates: DELETE FROM attendance_rates, committed
ClearRates(job) ==
    /\ job[1].phase = "clear"
    /\ rates' = EmptyBag
    /\ tasks' = ReplaceJob(tasks, job, <<[job[1] EXCEPT !.phase = "write"]>> \o Tail(job))
    /\ UNCHANGED <<attendances, schedules, nextId, requests, last>>
    /\ UNCHANGED calcVars
    /\ UNCHANGED registryVars

\* cruds.add_attendance_rates and the commit: the task (or the request) ends
PersistRates(job) ==
    /\ job[1].phase = "write"
    /\ rates' = add_attendance_rates(rates, job[1].rows)
    /\ tasks' = ReplaceJob(tasks, job, Tail(job))
    /\ UNCHANGED <<attendances, schedules, nextId, requests, last>>
    /\ UNCHANGED calcVars
    /\ UNCHANGED registryVars

\* ------------------------------------------------------------ specifications
\* the request bodies of POST /schedule: schemas.Schedule
Schedules == [date : {Date(2024, 4, 6)}, type : {"allday"}, target : {None}]

BulkLists == SeqsUpTo(BulkParams, MaxBulk)

\* the ids a request can name: those given out so far and one never given out
Ids == 0..nextId

StoreIdle ==
    /\ attendances = {} /\ schedules = {} /\ rates = EmptyBag /\ tasks = EmptyBag
    /\ nextId = 0 /\ requests = 0 /\ last = 0
    /\ members = {} /\ sessions = {} /\ cookie = None /\ now = 0 /\ weekly = {}

\* The service starts on a database that holds the schedules registered so
\* far: one for every date, or one for the second April date alone (April then
\* has a schedule, the first April date and May have none).
InitialSchedules == {Dates, {Date(2024, 4, 13)}}

Init ==
    /\ CalcIdle
    /\ attendances = {}
    /\ schedules \in InitialSchedules
    /\ rates = EmptyBag
    /\ tasks = EmptyBag
    /\ nextId = 0
    /\ requests = 0
    /\ last = 0
    /\ members = Members
    /\ sessions = {Session(1, "m1", 0)}
    /\ cookie = <<1>>
    /\ now = 0
    /\ weekly = {}

Next ==
    \/ \E a \in Params, overwrite \in BOOLEAN : Route(post_attendance(a, overwrite))
    \/ \E list \in BulkLists, overwrite \in BOOLEAN :
            Route(post_attendances(list, overwrite))
    \/ \E id \in Ids : Route(delete_attendance(id))
    \/ \E id \in Ids, s \in PostStatuses : Route(patch_attendance(id, s))
    \/ \E ids \in SUBSET Ids : Route(bulk_delete_attendances(ids))
    \/ \E d \in Dates : Route(delete_schedule(d))
    \/ \E s \in Schedules : Route(post_schedule(s))
    \/ \E m \in Members : Route(delete_member(m))
    \/ Route(recalc_attendance)
    \/ \E job \in BagToSet(tasks) : RecalculateRead(job)
    \/ \E job \in BagToSet(tasks) : BulkRead(job)
    \/ \E job \in BagToSet(tasks) : RecalcRead(job)
    \/ \E job \in BagToSet(tasks) : ClearRates(job)
    \/ \E job \in BagToSet(tasks) : PersistRates(job)

Spec == Init /\ [][Next]_vars

\* The routes behind get_valid_session with a client whose cookie holds the
\* token of the stored session, another token or none, the log-in and log-out
\* of that client, and the passing of time.
WeeklyParams == [weekday : {5}, is_active : BOOLEAN,
                 default_attendance : {None, <<"koushuu">>}]

InitAuth ==
    /\ CalcIdle
    /\ attendances = {}
    /\ schedules \in InitialSchedules
    /\ rates = EmptyBag
    /\ tasks = EmptyBag
    /\ nextId = 0
    /\ requests = 0
    /\ last = 0
    /\ members = Members
    /\ sessions = {Session(1, "m1", 0)}
    /\ cookie \in {None, <<1>>, <<2>>}
    /\ now = 0
    /\ weekly = {}

NextAuth ==
    \/ Next
    \/ \E m \in Members, wp \in WeeklyParams : Route(post_weekly_participation(m, wp))
    \/ Route(logout)
    \/ \E granted \in BOOLEAN, m \in Members : login(granted, m)
    \/ Tick

SpecAuth == InitAuth /\ [][NextAuth]_vars

\* recalc_attendance alone, on a database that holds attendances and rates:
\* for each date of AttendanceDates and each of m1, m2 and a deleted member
\* (member_id NULL) there is a row or none.
SlotSeq ==
    << <<Date(2024, 4, 6), <<"m1">>>>, <<Date(2024, 4, 6), <<"m2">>>>,
       <<Date(2024, 4, 6), None>>,
       <<Date(2024, 5, 4), <<"m1">>>>, <<Date(2024, 5, 4), <<"m2">>>>,
       <<Date(2024, 5, 4), None>> >>

InitialTables ==
    { {[id |-> k, date |-> SlotSeq[k][1], member_id |-> SlotSeq[k][2],
        attendance |-> f[k]] : k \in {j \in DOMAIN SlotSeq : f[j] # "-"}} :
      f \in [DOMAIN SlotSeq -> PostStatuses \cup {"-"}] }

\* the rate table at start: empty, or holding rows of an earlier computation
InitialRates ==
    { EmptyBag,
      SetToBag({AttendanceRate("member", <<"m1">>, <<2024, 5>>, <<1000>>, FALSE),
                AttendanceRate("all", None, <<2024, 4>>, <<0>>, TRUE)}) }

InitRecalc ==
    /\ CalcIdle
    /\ attendances \in InitialTables
    /\ schedules \in InitialSchedules
    /\ rates \in InitialRates
    /\ tasks = EmptyBag
    /\ nextId = Len(SlotSeq)
    /\ requests = 0
    /\ last = 0
    /\ members = Members
    /\ sessions = {Session(1, "m1", 0)}
    /\ cookie = <<1>>
    /\ now = 0
    /\ weekly = {}

NextRecalc ==
    \/ Route(recalc_attendance)
    \/ \E job \in BagToSet(tasks) : RecalcRead(job)
    \/ \E job \in BagToSet(tasks) : ClearRates(job)
    \/ \E job \in BagToSet(tasks) : PersistRates(job)

SpecRecalc == InitRecalc /\ [][NextRecalc]_vars

\* Bulk registrations of one month (April 2024) and their background tasks:
\* the requests are handled one after the other, the tasks they added run as
\* coroutines of the one event loop and take turns at every await.
AprilParams == {a \in Params : Strftime(a.date) = <<2024, 4>>}

AprilLists == SeqsUpTo(AprilParams, MaxBulk)

NextBulk ==
    \/ \E list \in AprilLists, overwrite \in BOOLEAN :
            Route(post_attendances(list, overwrite))
    \/ \E job \in BagToSet(tasks) : BulkRead(job)
    \/ \E job \in BagToSet(tasks) : PersistRates(job)

SpecBulk == Init /\ [][NextBulk]_vars

\* Bulk deletes and their background tasks, on a database that holds
\* attendances of the stored members and the rates recalc_attendance has
\* stored for them.
DeleteSlotSeq ==
    << <<Date(2024, 4, 6), <<"m1">>>>, <<Date(2024, 4, 13), <<"m1">>>>,
       <<Date(2024, 4, 6), <<"m2">>>>, <<Date(2024, 5, 4), <<"m2">>>> >>

\* m1 has a record on both April dates, m2 one in April and one in May
StoredMemberTables ==
    { {[id |-> k, date |-> DeleteSlotSeq[k][1], member_id |-> DeleteSlotSeq[k][2],
        attendance |-> f[k]] : k \in DOMAIN DeleteSlotSeq} :
      f \in [DOMAIN DeleteSlotSeq -> PostStatuses] }

InitDelete ==
    /\ CalcIdle
    /\ attendances \in StoredMemberTables
    /\ schedules \in InitialSchedules
    /\ rates = add_attendance_rates(EmptyBag,
                  AllMonthsRows(attendances, schedules,
                                SortedMonths(ScheduleMonths(schedules)), 1))
    /\ tasks = EmptyBag
    /\ nextId = Len(DeleteSlotSeq)
    /\ requests = 0
    /\ last = 0
    /\ members = Members
    /\ sessions = {Session(1, "m1", 0)}
    /\ cookie = <<1>>
    /\ now = 0
    /\ weekly = {}

NextDelete ==
    \/ \E ids \in SUBSET Ids : Route(bulk_delete_attendances(ids))
    \/ \E job \in BagToSet(tasks) : BulkRead(job)
    \/ \E job \in BagToSet(tasks) : PersistRates(job)

SpecDelete == InitDelete /\ [][NextDelete]_vars

\* calc alone, on every collection of InputCollections, first with either
\* argument
InitCalc ==
    /\ StoreIdle
    /\ self \in InputCollections
    /\ actual \in BOOLEAN
    /\ pc = "call"
    /\ i = 0 /\ total = 0 /\ score = 0 /\ result = None /\ history = <<>>

SpecCalc == InitCalc /\ [][NextCalc]_vars

\* ===================================================================== claims
\* What the claims speak of, said without the score tables' code: the
\* statuses that count under NOMINAL, the records of a collection that count
\* toward the denominator, and the sum of their scores.
NominalScored == {"shusseki", "kesseki", "chikoku", "soutai", "muketsu"}

Contributing(recs, act) ==
    {k \in 1..Len(recs) : act \/ recs[k].attendance \in NominalScored}

CountOf(recs, S) == Cardinality({k \in 1..Len(recs) : recs[k].attendance \in S})

SumOfScores(recs) ==
    100 * CountOf(recs, {"shusseki"}) + 50 * CountOf(recs, {"chikoku", "soutai"})

StatusesOf(recs) == [k \in 1..Len(recs) |-> recs[k].attendance]

\* a rate, in tenths, is absent or between 0.0 and 100.0
InRange(rate) == rate # None => (rate[1] >= 0 /\ rate[1] <= 1000)

\* two rate rows of one (target_id, month, actual)
SameKey(r, x) ==
    r.target_id = x.target_id /\ r.month = x.month /\ r.actual = x.actual

\* C1: calc returns None, and not 0, exactly when no record of the collection
\* counts toward the denominator (so for every empty collection, in either
\* mode), and a number in every other case.
C1_AbsentIffNoContributor ==
    pc = "done" =>
        /\ (result = None) <=> (Contributing(self, actual) = {})
        /\ self = <<>> => result = None
        /\ result # None => (Len(result) = 1 /\ result[1] \in Nat)

C1_Witness ==
    /\ pc = "done" /\ ~actual /\ Len(self) >= 2 /\ result = None
    /\ \E k \in 1..Len(self) : self[k].attendance = "koushuu"
    /\ \E k \in 1..Len(self) : self[k].attendance = "other"

\* C2: with a denominator other than 0, calc returns the sum of the scores
\* over the number of counting records, rounded to one decimal with ties
\* rounded up; [shusseki, shusseki, kesseki, koushuu] gives 66.7 under
\* NOMINAL and 50.0 under ACTUAL.
C2_RoundHalfUp ==
    pc = "done" =>
        LET den == Cardinality(Contributing(self, actual))
            num == SumOfScores(self)
        IN /\ den # 0 =>
                /\ result # None
                /\ 2 * result[1] * den <= 20 * num + den
                /\ 20 * num + den < 2 * (result[1] + 1) * den
           /\ StatusesOf(self) = <<"shusseki", "shusseki", "kesseki", "koushuu">> =>
                result = IF actual THEN <<500>> ELSE <<667>>

\* a tie: 50/8 = 6.25, returned as 6.3
C2_Witness ==
    /\ pc = "done"
    /\ Cardinality(Contributing(self, actual)) = 8
    /\ SumOfScores(self) = 50
    /\ result = <<63>>

\* The third call of a run is the one with the other argument: the NOMINAL
\* and the ACTUAL result on one collection.
BothModesDone == pc = "done" /\ Len(history) = 2
NominalResult == IF actual THEN history[2].result ELSE result
ActualResult == IF actual THEN result ELSE history[2].result

\* C3 as stated: for every collection the NOMINAL rate is higher than or
\* equal to the ACTUAL rate (both absent, or both numbers so ordered).
C3_NominalAtLeastActual ==
    BothModesDone =>
        \/ NominalResult = None /\ ActualResult = None
        \/ /\ NominalResult # None
           /\ ActualResult # None
           /\ NominalResult[1] >= ActualResult[1]

\* C3 amended: whenever calc returns a rate under NOMINAL it returns one
\* under ACTUAL too, and the NOMINAL rate is higher or equal; a collection
\* without a NOMINAL rate has no ACTUAL rate or the ACTUAL rate 0.0.
C3_NominalAtLeastActualWhenDefined ==
    BothModesDone =>
        /\ NominalResult # None =>
              (ActualResult # None /\ NominalResult[1] >= ActualResult[1])
        /\ NominalResult = None => ActualResult \in {None, <<0>>}

C3_Witness ==
    /\ BothModesDone
    /\ NominalResult = <<1000>>
    /\ ActualResult = <<500>>

\* C4: a record whose status is in neither score table adds 1 to the
\* denominator and 0 to the numerator under ACTUAL, nothing to either under
\* NOMINAL, and the loop goes on to the next record.
C4_UnknownStatus ==
    [][ (pc = "loop" /\ i <= Len(self)
            /\ self[i].attendance \notin
                 (DOMAIN attendance_score \cup DOMAIN actual_attendance_score))
        => /\ score' = score
           /\ total' = total + (IF actual THEN 1 ELSE 0)
           /\ pc' = "loop" /\ i' = i + 1 ]_vars

C4_Witness ==
    /\ pc = "loop" /\ actual /\ i = 3
    /\ self[1].attendance = "shusseki" /\ self[2].attendance = "other"
    /\ total = 2 /\ score = 100

\* C5: a koushuu (lecture) record adds nothing to numerator or denominator
\* under NOMINAL and 0 to the numerator, 1 to the denominator under ACTUAL;
\* every other status of the two tables has the same score in both.
C5_LectureStatus ==
    [][ /\ DOMAIN attendance_score = DOMAIN actual_attendance_score
        /\ \A s \in DOMAIN attendance_score \ {"koushuu"} :
              attendance_score[s] = actual_attendance_score[s]
        /\ (pc = "loop" /\ i <= Len(self) /\ self[i].attendance = "koushuu")
           => /\ score' = score
              /\ total' = total + (IF actual THEN 1 ELSE 0) ]_vars

C5_Witness ==
    /\ pc = "loop" /\ ~actual /\ i = 3
    /\ self[1].attendance = "shusseki" /\ self[2].attendance = "koushuu"
    /\ total = 1 /\ score = 100

\* C6: when every record of a non-empty collection has a status that the
\* active table maps to one and the same score s, calc returns s.
C6_UniformScore ==
    pc = "done" =>
        \A s \in {0, 50, 100} :
            (/\ self # <<>>
             /\ \A k \in 1..Len(self) :
                   /\ self[k].attendance \in DOMAIN ScoresOf(actual)
                   /\ ScoresOf(actual)[self[k].attendance] = <<s>>)
            => result = <<10 * s>>

C6_Witness ==
    /\ pc = "done" /\ Len(self) >= 3 /\ result = <<500>>
    /\ \A k \in 1..Len(self) : self[k].attendance \in {"chikoku", "soutai"}
    /\ \E k \in 1..Len(self) : self[k].attendance = "chikoku"
    /\ \E k \in 1..Len(self) : self[k].attendance = "soutai"

\* C7: every rate computed by a recomputation, and every rate held in the
\* rate store, is absent or lies between 0 and 100.
C7_RateInRange ==
    /\ \A r \in BagToSet(rates) : InRange(r.rate)
    /\ \A job \in BagToSet(tasks) : \A k \in 1..Len(job) :
          \A n \in 1..Len(job[k].rows) : InRange(job[k].rows[n].rate)

C7_Witness ==
    /\ \E r \in BagToSet(rates) : r.rate = <<500>>
    /\ \E r \in BagToSet(rates) : r.rate = <<1000>>
    /\ \E r \in BagToSet(rates) : r.rate = <<0>>

\* C8: calc leaves the collection and its records as they are and ends with
\* a result on every collection, so a second call with the same argument
\* returns what the first returned.
C8_Pure ==
    [][ /\ self' = self
        /\ (pc' = "done" /\ Len(history') = 1) => result' = history'[1].result
        /\ pc' \in {"call", "loop", "done"}
        /\ pc' # "done" => ENABLED NextCalc ]_vars

C8_Witness ==
    /\ pc = "done" /\ Len(history) = 1 /\ ~actual
    /\ result = <<500>>
    /\ history[1].result = <<500>>
    /\ \E k \in 1..Len(self) : self[k].attendance = "other"
    /\ \E k \in 1..Len(self) : self[k].member = None

C11_DuplicateRejected ==
    [][ \A a \in Params :
          (post_attendance(a, FALSE) /\ Existing(attendances, a.date, a.member_id) # {})
            => /\ last' = 400
               /\ UNCHANGED <<attendances, schedules, rates, tasks, nextId>>
               /\ UNCHANGED registryVars ]_vars

C11_Witness ==
    /\ last = 400
    /\ requests = 2
    /\ nextId = 1
    /\ members = Members
    /\ \E r \in attendances : r.member_id # None
    /\ \E job \in BagToSet(tasks) : job[1].kind = "recalculate_attendance_rates"

\* C12: whatever registrations, edits and deletions were made, the attendance
\* table holds at most one row for each (date, member_id) of a stored member,
\* and a row names a stored member or none.
C12_OneRecordPerDateMember ==
    \A r \in attendances :
        r.member_id # None =>
            /\ r.member_id[1] \in members
            /\ \A x \in attendances :
                  (x.date = r.date /\ x.member_id = r.member_id) => x = r

\* a second registration of one (date, member) was accepted (overwrite) and
\* the table holds the one row
C12_Witness ==
    /\ requests = 2
    /\ last = 200
    /\ nextId = 1
    /\ BagCardinality(tasks) = 2
    /\ \E r \in attendances : r.member_id # None /\ attendances = {r}

\* the table holds exactly one row of the (date, member_id) of a, with the
\* status of a, and it is the row the table held for them before, if any
Registered(before, after, a) ==
    /\ \E r \in after :
          /\ Existing(after, a.date, a.member_id) = {r}
          /\ r.attendance = a.attendance
    /\ \A r \in Existing(before, a.date, a.member_id) :
          \E x \in Existing(after, a.date, a.member_id) : x.id = r.id

\* C13: a registration with overwrite is never answered with the
\* already-exists error (HTTP 400); after it every submitted (date, member)
\* has exactly one row, carrying the submitted status: the stored row when
\* there was one, a new row otherwise.
C13_OverwriteAlwaysRegisters ==
    [][ /\ \A a \in Params :
             post_attendance(a, TRUE)
               => (last' # 400 /\ Registered(attendances, attendances', a))
        /\ \A list \in BulkLists :
             post_attendances(list, TRUE)
               => /\ last' # 400
                  /\ \A k \in 1..Len(list) :
                        Registered(attendances, attendances', list[k]) ]_vars

\* the cookie holds the token of a stored session created at most 30 days ago
ValidCookie ==
    /\ cookie # None
    /\ \E x \in sessions : x.token = cookie[1] /\ now <= x.created_at + SessionDays

\* a step of POST /login, the one request that needs no session
LoginStep == \E granted \in BOOLEAN, m \in Members : login(granted, m)

\* C14: a request to a route of the attendance, member, schedule routers or
\* to logout, made without the token of a valid stored session in the cookie,
\* is answered HTTP 401 and changes no table, no task list and no cookie; the
\* request is carried out only with such a token.
C14_ValidSessionRequired ==
    [][ (requests' # requests /\ ~LoginStep /\ ~ValidCookie)
          => /\ last' = 401
             /\ UNCHANGED <<attendances, schedules, rates, tasks, nextId>>
             /\ UNCHANGED registryVars ]_vars

\* a request was refused although the cookie holds the token of a stored
\* session: the session is older than 30 days
C14_Witness ==
    /\ last = 401
    /\ requests = 1
    /\ cookie # None
    /\ \E x \in sessions : x.token = cookie[1] /\ x.created_at + SessionDays < now

\* C15: post_schedule registers the schedule of its date: it answers HTTP 200
\* and afterwards the schedule table holds a schedule of that date, whether or
\* not it held one before.
C15_ScheduleRegistered ==
    [][ \A s \in Schedules :
          post_schedule(s) => (last' = 200 /\ s.date \in schedules') ]_vars

\* the rows of weekly_participations of a (member, weekday)
WeeklyOf(table, m, weekday) == {w \in table : w.member_id = m /\ w.weekday = weekday}

\* after the call the table holds one row of (m, wp.weekday), with the values
\* of wp, and the rows of the other pairs as before
WeeklyUpserted(m, wp) ==
    /\ last' = 200
    /\ \E w \in weekly' :
          /\ WeeklyOf(weekly', m, wp.weekday) = {w}
          /\ w.is_active = wp.is_active
          /\ w.default_attendance = wp.default_attendance
    /\ weekly' \ WeeklyOf(weekly', m, wp.weekday)
          = weekly \ WeeklyOf(weekly, m, wp.weekday)

\* at most one row per (member, weekday); a row changes or goes only by a
\* call for its pair or with its member
WeeklyKept ==
    /\ [](\A w, x \in weekly :
            (w.member_id = x.member_id /\ w.weekday = x.weekday) => w = x)
    /\ [][ \A w \in weekly :
             \/ w \in weekly'
             \/ w.member_id \notin members'
             \/ \E wp \in WeeklyParams :
                   /\ wp.weekday = w.weekday
                   /\ post_weekly_participation(w.member_id, wp) ]_vars

\* C16 as stated: post_weekly_participation for any (member, weekday) leaves
\* exactly one row of the pair, with the values of the call.
C16_WeeklyUpsert ==
    /\ WeeklyKept
    /\ [][ \A m \in Members, wp \in WeeklyParams :
             post_weekly_participation(m, wp) => WeeklyUpserted(m, wp) ]_vars

\* C16, for stored members: post_weekly_participation for a (member, weekday)
\* of a stored member leaves exactly one row of the pair, with is_active and
\* default_attendance of the call (created when there was none, updated
\* otherwise); for a member that is not stored it answers HTTP 500 and leaves
\* the table as it is; at all times there is at most one row per pair, and a
\* row stays as the last such call left it until its member is deleted.
C16_WeeklyUpsertOfStoredMember ==
    /\ WeeklyKept
    /\ [][ \A m \in Members, wp \in WeeklyParams :
             post_weekly_participation(m, wp)
               => IF m \in members THEN WeeklyUpserted(m, wp)
                  ELSE last' = 500 /\ weekly' = weekly ]_vars

\* two accepted requests, the second a call for a pair: its row is the one row
C16_Witness ==
    /\ requests = 2
    /\ last = 200
    /\ members = Members
    /\ \E w \in weekly : weekly = {w} /\ w.is_active /\ w.default_attendance = <<"koushuu">>

\* the request was answered HTTP 200 and no table, task list or cookie changed
SucceededWithoutEffect ==
    /\ last' = 200
    /\ UNCHANGED <<attendances, schedules, rates, tasks, nextId>>
    /\ UNCHANGED registryVars

\* C17: delete_attendance, delete_member and delete_schedule of something that
\* is not stored answer HTTP 200 and change nothing; after any of them the
\* thing is not stored, so that the same delete made again changes nothing.
C17_DeleteOfMissingSucceeds ==
    [][ /\ \A id \in Ids :
             delete_attendance(id)
               => /\ \A r \in attendances' : r.id # id
                  /\ (\A r \in attendances : r.id # id) => SucceededWithoutEffect
        /\ \A m \in Members :
             delete_member(m)
               => /\ m \notin members'
                  /\ m \notin members => SucceededWithoutEffect
        /\ \A d \in Dates :
             delete_schedule(d)
               => /\ d \notin schedules'
                  /\ d \notin schedules => SucceededWithoutEffect ]_vars

\* two accepted requests after which a member is gone and nothing else has
\* changed: the second found nothing to delete
C17_Witness ==
    /\ requests = 2
    /\ last = 200
    /\ members = {"m1"}
    /\ attendances = {} /\ nextId = 0
    /\ tasks = EmptyBag /\ rates = EmptyBag
    /\ schedules = Dates

\* the job holds one recalculate_attendance_rates_bulk task, not yet started,
\* for each month of the set and nothing else
OneBulkTaskPerMonth(job, months) ==
    /\ Len(job) = Cardinality(months)
    /\ \A k \in 1..Len(job) :
          /\ job[k].kind = "recalculate_attendance_rates_bulk"
          /\ job[k].phase = "start"
          /\ job[k].month # None /\ job[k].month[1] \in months
    /\ \A month \in months : \E k \in 1..Len(job) : job[k].month = <<month>>

\* C18: bulk_delete_attendances removes the stored rows whose id is in
\* attendance_ids and no other, changes no other row, and adds one
\* recalculate_attendance_rates_bulk task for each month of a removed row; when
\* no row is removed (unknown ids, empty list) it adds none.
C18_BulkDelete ==
    [][ \A ids \in SUBSET Ids :
          bulk_delete_attendances(ids)
            => LET months == {Strftime(r.date) : r \in {x \in attendances : x.id \in ids}}
               IN /\ last' = 200
                  /\ attendances' = {r \in attendances : r.id \notin ids}
                  /\ IF months = {} THEN tasks' = tasks
                     ELSE \E job \in BagToSet(tasks') :
                            /\ tasks' = tasks (+) SetToBag({job})
                            /\ OneBulkTaskPerMonth(job, months)
                  /\ UNCHANGED <<schedules, rates, nextId>>
                  /\ UNCHANGED registryVars ]_vars

\* a bulk registration for two months, then the bulk delete of its two rows:
\* each has left a job of two tasks
C18_Witness ==
    /\ requests = 2
    /\ last = 200
    /\ nextId = 2
    /\ attendances = {}
    /\ \E job \in BagToSet(tasks) :
          /\ CopiesIn(job, tasks) = 2
          /\ OneBulkTaskPerMonth(job, {<<2024, 4>>, <<2024, 5>>})

\* the counted records of a month: those of the month, of a stored member, on
\* a date that has a schedule
Counted(table, sched, month) ==
    {r \in table : Strftime(r.date) = month /\ r.member_id # None /\ r.date \in sched}

Parts == {PartSeq[k] : k \in 1..Len(PartSeq)}

\* rows holds, for both modes and nothing else, the rate of all counted
\* records, the rate of every part and the rate of every member with a
\* counted record
RatesOfMonth(rows, table, sched, month) ==
    LET counted == Counted(table, sched, month)
        ms == {r.member_id[1] : r \in counted}
        Has(x) == \E k \in 1..Len(rows) : rows[k] = x
    IN /\ Len(rows) = 2 + 2 * Cardinality(Parts) + 2 * Cardinality(ms)
       /\ \A act \in BOOLEAN :
             /\ Has(AttendanceRate("all", None, month,
                                   calc(RowsById(counted), act), act))
             /\ \A p \in Parts :
                   Has(AttendanceRate("part", <<p>>, month,
                         calc(RowsById({r \in counted : PartOf[r.member_id[1]] = p}), act),
                         act))
             /\ \A m \in ms :
                   Has(AttendanceRate("member", <<m>>, month,
                         calc(RowsById({r \in counted : r.member_id = <<m>>}), act),
                         act))

\* C19: recalculate_attendance_rates_bulk for a month without a schedule ends
\* without a write to the rate table; for a month with a schedule it computes,
\* for both modes, the rate of all members, of every part and of every member
\* with a counted record of the month, and after its write the rate table holds
\* every one of these rows.
C19_BulkRecalculation ==
    [][ \A job \in BagToSet(tasks) :
          /\ BulkRead(job)
               => /\ rates' = rates
                  /\ IF job[1].month[1] \notin ScheduleMonths(schedules)
                     THEN tasks' = ReplaceJob(tasks, job, Tail(job))
                     ELSE \E next \in BagToSet(tasks') :
                            /\ tasks' = ReplaceJob(tasks, job, next)
                            /\ Tail(next) = Tail(job)
                            /\ next[1].phase = "write"
                            /\ RatesOfMonth(next[1].rows, attendances, schedules,
                                            job[1].month[1])
          /\ (PersistRates(job) /\ job[1].kind = "recalculate_attendance_rates_bulk")
               => \A k \in 1..Len(job[1].rows) : BagIn(job[1].rows[k], rates') ]_vars

\* after one request, a bulk registration, and its task: the rate table holds
\* the rate of a member and the absent rate of a part without records
C19_Witness ==
    /\ requests = 1
    /\ last = 200
    /\ tasks = EmptyBag
    /\ \E r \in BagToSet(rates) :
          r.target_type = "member" /\ r.rate = <<1000>> /\ ~r.actual
    /\ \E r \in BagToSet(rates) :
          r.target_type = "part" /\ r.target_id = <<"perc">> /\ r.rate = None

\* the rows the claim names for the months that have a schedule
RatesOfAllMonths(table, sched) ==
    LET CalcOf(S, act) == calc(RowsById(S), act) IN
    UNION { LET counted == Counted(table, sched, month) IN
              {AttendanceRate("all", None, month, CalcOf(counted, act), act) :
                  act \in BOOLEAN}
              \cup {AttendanceRate("part", <<p>>, month,
                        CalcOf({r \in counted : PartOf[r.member_id[1]] = p}, act), act) :
                     p \in Parts, act \in BOOLEAN}
              \cup {AttendanceRate("member", <<m>>, month,
                        CalcOf({r \in counted : r.member_id = <<m>>}, act), act) :
                     m \in {r.member_id[1] : r \in counted}, act \in BOOLEAN}
            : month \in ScheduleMonths(sched) }

\* C20: when recalc_attendance has run alone to its end, the rate table holds,
\* once each and nothing else, for every month with a schedule and both modes:
\* the all-members row, a row for every part and a row for every member with
\* a counted record of the month, each with calc of the counted records of its
\* scope.
C20_RecalcRebuildsRates ==
    (requests = 1 /\ tasks = EmptyBag)
        => /\ BagToSet(rates) = RatesOfAllMonths(attendances, schedules)
           /\ \A r \in BagToSet(rates) : CopiesIn(r, rates) = 1

\* recalc_attendance has run on a table that holds, for April, 出席 of one
\* member, 講習 of the other and a row of a deleted member
C20_Witness ==
    /\ requests = 1 /\ tasks = EmptyBag
    /\ \E r \in attendances : r.member_id = None /\ r.date = Date(2024, 4, 6)
    /\ \E r \in BagToSet(rates) :
          r.target_type = "all" /\ r.month = <<2024, 4>> /\ r.actual /\ r.rate = <<500>>
    /\ \E r \in BagToSet(rates) :
          r.target_type = "member" /\ r.month = <<2024, 4>> /\ ~r.actual /\ r.rate = None

\* the months of the rows a step created, changed or removed
AffectedMonths ==
    {Strftime(r.date) :
        r \in (attendances \ attendances') \cup (attendances' \ attendances)}

\* the step has added a job that holds a recomputation task, not yet started,
\* for the month
RecomputationAdded(month) ==
    \E job \in BagToSet(tasks') :
        /\ CopiesIn(job, tasks') > CopiesIn(job, tasks)
        /\ \E k \in 1..Len(job) :
              /\ job[k].kind \in {"recalculate_attendance_rates",
                                  "recalculate_attendance_rates_bulk"}
              /\ job[k].phase = "start"
              /\ job[k].month = <<month>>

\* C21: every attendance write that succeeds (post_attendance,
\* post_attendances, patch_attendance, delete_attendance,
\* bulk_delete_attendances) leaves a rate recomputation to run for the month
\* of every record it created, changed or removed.
C21_WriteSchedulesRecomputation ==
    [][ ( /\ last' = 200
          /\ \/ \E a \in Params, overwrite \in BOOLEAN : post_attendance(a, overwrite)
             \/ \E list \in BulkLists, overwrite \in BOOLEAN :
                    post_attendances(list, overwrite)
             \/ \E id \in Ids, s \in PostStatuses : patch_attendance(id, s)
             \/ \E id \in Ids : delete_attendance(id)
             \/ \E ids \in SUBSET Ids : bulk_delete_attendances(ids) )
        => \A month \in AffectedMonths : RecomputationAdded(month) ]_vars

\* the month has a schedule, and every record of the month is on a date that
\* has a schedule and belongs to a stored member
MonthWellFormed(month) ==
    /\ month \in ScheduleMonths(schedules)
    /\ \A r \in attendances :
          Strftime(r.date) = month
            => /\ r.date \in schedules
               /\ r.member_id # None
               /\ r.member_id[1] \in members

\* two lists of rate rows give the same rate to every (scope, scope-id, month,
\* mode) that both hold
SameRateWhereBoth(rows, others) ==
    \A j \in 1..Len(rows), k \in 1..Len(others) :
        (rows[j].target_type = others[k].target_type /\ SameKey(rows[j], others[k]))
            => rows[j].rate = others[k].rate

\* C22: for a month that has a schedule and whose records are all on scheduled
\* dates and of stored members, the rows recalculate_attendance_rates computes
\* after a single registration carry, for all members, for the part of the
\* registered member and for the registered member, the rates that
\* recalculate_attendance_rates_bulk computes for the month on the same tables.
C22_SingleEqualsBulk ==
    [][ \A job \in BagToSet(tasks) :
          (RecalculateRead(job) /\ MonthWellFormed(job[1].month[1]))
            => SameRateWhereBoth(
                  RecalculateRows(attendances, job[1].month[1], job[1].member[1]),
                  MonthRows(attendances, schedules, job[1].month[1])) ]_vars

\* the stored rate rows of a month
StoredOf(month) == {r \in BagToSet(rates) : r.month = month}

\* the rows recalculate_attendance_rates_bulk computes for the month on the
\* tables as they are
ComputedOf(month) ==
    LET rows == MonthRows(attendances, schedules, month)
    IN {rows[k] : k \in 1..Len(rows)}

\* C23: when bulk registrations of one month have been made and every task
\* they added has finished, in whatever order the requests and the steps of
\* the tasks took their turns, the rate table holds for the month the rates
\* that recalculate_attendance_rates_bulk computes on the final tables.
C23_ConcurrentBulkConverges ==
    (tasks = EmptyBag /\ StoredOf(<<2024, 4>>) # {})
        => StoredOf(<<2024, 4>>) = ComputedOf(<<2024, 4>>)

\* the stored rates of a member for a month and a mode
MemberRatesOf(m, month, act) ==
    {r.rate : r \in {x \in BagToSet(rates) :
                        /\ x.target_type = "member" /\ x.target_id = <<m>>
                        /\ x.month = month /\ x.actual = act}}

\* C24: when a bulk delete and the tasks it added have finished, the stored
\* rate of every member, for every month that has a schedule and both modes,
\* is calc of the member's remaining counted records of the month; a member
\* with no such record left has no stored rate for the month.
C24_MemberRatesAfterBulkDelete ==
    (requests = 1 /\ tasks = EmptyBag)
        => \A month \in ScheduleMonths(schedules), m \in Members, act \in BOOLEAN :
              LET left == {r \in Counted(attendances, schedules, month) :
                              r.member_id = <<m>>}
              IN IF left = {}
                 THEN MemberRatesOf(m, month, act) \subseteq {None}
                 ELSE MemberRatesOf(m, month, act) = {calc(RowsById(left), act)}

====
